---- MODULE Spec2Model ----
(***************************************************************************)
(* Vertical alignment of CSS property groups (formate, src/extension.ts).  *)
(*                                                                         *)
(* A text is a sequence of one-character strings; "\n" separates lines.    *)
(* Offsets, line numbers and the group indices firstProperty and           *)
(* lastProperty are zero-based as in the source; TLA+ sequences are        *)
(* one-based, so line number k of cssLines is cssLines[k + 1].             *)
(***************************************************************************)
EXTENDS Integers, Sequences, FiniteSets, TLC

\* Bounds of the model: lines per document, largest additionalSpaces.
MaxLines == 4
MaxExtra == 1

NL == "\n"

----------------------------------------------------------------------------
(* String primitives of the JavaScript runtime, as the source uses them.   *)

\* String.prototype.indexOf(ch): zero-based offset of the first ch, or -1.
RECURSIVE IndexFrom(_, _, _)
IndexFrom(s, ch, k) ==
    IF k > Len(s) THEN -1
    ELSE IF s[k] = ch THEN k - 1
    ELSE IndexFrom(s, ch, k + 1)

IndexOf(s, ch) == IndexFrom(s, ch, 1)

\* String.prototype.startsWith(t).
StartsWith(s, t) == Len(s) >= Len(t) /\ \A j \in 1..Len(t) : s[j] = t[j]

\* line.indexOf(t) >= 0 for a string t.
Contains(s, t) ==
    \E k \in 1..(Len(s) - Len(t) + 1) : \A j \in 1..Len(t) : s[k + j - 1] = t[j]

\* String.prototype.trim(): white space removed at both ends.
RECURSIVE TrimLeft(_)
TrimLeft(s) ==
    IF s # <<>> /\ Head(s) = " " THEN TrimLeft(Tail(s)) ELSE s

RECURSIVE TrimRight(_)
TrimRight(s) ==
    IF s # <<>> /\ s[Len(s)] = " " THEN TrimRight(SubSeq(s, 1, Len(s) - 1)) ELSE s

Trim(s) == TrimRight(TrimLeft(s))

\* ' '.repeat(n).
Repeat(n) == [k \in 1..n |-> " "]

\* css.split('\n'): always at least one line.
RECURSIVE SplitFrom(_, _, _)
SplitFrom(text, from, k) ==
    IF k > Len(text) THEN <<SubSeq(text, from, Len(text))>>
    ELSE IF text[k] = NL
         THEN <<SubSeq(text, from, k - 1)>> \o SplitFrom(text, k + 1, k + 1)
         ELSE SplitFrom(text, from, k + 1)

Split(text) == SplitFrom(text, 1, 1)

\* cssLines.join('\n').
RECURSIVE Join(_)
Join(lines) ==
    IF lines = <<>> THEN <<>>
    ELSE IF Len(lines) = 1 THEN lines[1]
    ELSE lines[1] \o <<NL>> \o Join(Tail(lines))

\* Array.prototype.slice(from, to) for 0 <= from: the entries from .. to - 1.
Slice(lines, from, to) ==
    IF to <= from THEN <<>> ELSE SubSeq(lines, from + 1, to)

\* Math.max.apply(null, xs) for a non-empty xs.
RECURSIVE MaxOf(_)
MaxOf(xs) ==
    IF Len(xs) = 1 THEN xs[1]
    ELSE LET m == MaxOf(Tail(xs)) IN IF xs[1] > m THEN xs[1] ELSE m

----------------------------------------------------------------------------
(* The line classifiers.                                                   *)

\* isProperty: the regular expression /(([A-z]-*)*\s*:\s*).*;?[^,|{]$/ is not
\* anchored at its start, its key part ([A-z]-*)*\s* and the \s*.*;? after
\* the colon match the empty string, and [^,|{]$ takes exactly the last
\* character.  It matches iff some ':' has at least one character after it
\* and the last character is none of ',', '|', '{'.
IsProperty(line) ==
    /\ \E k \in 1..(Len(line) - 1) : line[k] = ":"
    /\ line[Len(line)] \notin {",", "|", "{"}

IsLineCommentLine(line) == StartsWith(Trim(line), <<"/", "/">>)

IgnoreToken ==
    <<"/", "/", " ", "f", "o", "r", "m", "a", "t", "e", "-",
      "i", "g", "n", "o", "r", "e">>

IsLineIgnoreLine(line) == StartsWith(Trim(line), IgnoreToken)

----------------------------------------------------------------------------
(* Column resolver and line rewriter.                                      *)

FindIndexOfFurthestColon(properties) ==
    IF Len(properties) = 0 THEN 0
    ELSE MaxOf([k \in 1..Len(properties) |-> IndexOf(properties[k], ":")])

\* The replacement made at every ':' of the line (a global replace).
RECURSIVE ReplaceEveryColon(_, _)
ReplaceEveryColon(cssLine, r) ==
    IF cssLine = <<>> THEN <<>>
    ELSE IF Head(cssLine) = ":" THEN r \o ReplaceEveryColon(Tail(cssLine), r)
    ELSE <<Head(cssLine)>> \o ReplaceEveryColon(Tail(cssLine), r)

\* String.prototype.replace(':', r): the first ':' replaced by r, the line
\* itself when it holds no ':'.
ReplaceFirstColon(cssLine, r) ==
    LET k == IndexOf(cssLine, ":") IN
    IF k = -1 THEN cssLine
    ELSE SubSeq(cssLine, 1, k) \o r \o SubSeq(cssLine, k + 2, Len(cssLine))

\* The spaces put before the ':' whatever the side asked for.
InsertExtraSpacesBeforeOnly(cssLine, numberOfSpaces, colonSide) ==
    ReplaceFirstColon(cssLine, Repeat(numberOfSpaces) \o <<":">>)

InsertExtraSpaces(cssLine, numberOfSpaces, colonSide) ==
    IF colonSide
    THEN ReplaceFirstColon(cssLine, Repeat(numberOfSpaces) \o <<":">>)
    ELSE ReplaceFirstColon(cssLine, <<":">> \o Repeat(numberOfSpaces))

----------------------------------------------------------------------------
(* verticalAlign: the locals of one call and the forEach callback.         *)

\* The locals of verticalAlign when the loop begins.
InitLocals(lines) ==
    [cssLines |-> lines, firstProperty |-> -1, lastProperty |-> -1,
     commentBlockEntered |-> FALSE, ignoreNextLine |-> FALSE]

\* The branch of the callback that handles line number idx: the early
\* returns in their order, "scan" for a line that reaches the group logic.
Branch(s, idx) ==
    LET line == Trim(s.cssLines[idx + 1]) IN
    IF s.ignoreNextLine THEN "ignored"
    ELSE IF IsLineIgnoreLine(line) THEN "marker"
    ELSE IF IsLineCommentLine(line) THEN "comment"
    ELSE IF Contains(line, <<"*", "/">>) THEN "blockend"
    ELSE IF StartsWith(line, <<"/", "*">>) \/ s.commentBlockEntered THEN "block"
    ELSE "scan"

\* The while loop that formats the lines first .. last, last included.
RECURSIVE FormatLoop(_, _, _, _, _)
FormatLoop(lines, first, last, furthestColon, colonSide) ==
    IF first > last THEN lines
    ELSE LET cur        == lines[first + 1]
             colonIndex == IndexOf(cur, ":")
             next       == IF colonIndex < furthestColon /\ ~IsLineCommentLine(cur)
                           THEN [lines EXCEPT ![first + 1] =
                                   InsertExtraSpaces(cur, furthestColon - colonIndex, colonSide)]
                           ELSE lines
         IN  FormatLoop(next, first + 1, last, furthestColon, colonSide)

\* The column taken one place too far.
FurthestColonOffByOne(lines, first, last, extra) ==
    FindIndexOfFurthestColon(Slice(lines, first, last)) + extra + 1

\* The column of the group first .. last: the furthest colon of the slice
\* (last excluded) plus the additional spaces.
FurthestColon(lines, first, last, extra) ==
    FindIndexOfFurthestColon(Slice(lines, first, last)) + extra

\* firstProperty after "Set the start of the property group".
FirstAfter(s, idx) ==
    IF IsProperty(Trim(s.cssLines[idx + 1])) /\ s.firstProperty = -1
    THEN idx ELSE s.firstProperty

\* lastProperty after "Last property group line".
LastAfter(s, idx) ==
    IF \/ ~IsProperty(Trim(s.cssLines[idx + 1])) /\ FirstAfter(s, idx) >= 0
       \/ Len(s.cssLines) - 1 = idx
    THEN idx ELSE s.lastProperty

\* Whether a line that reaches the group logic has its group formatted.
Closes(s, idx) == FirstAfter(s, idx) # -1 /\ LastAfter(s, idx) # -1

\* The group logic without "Prepare for the next loop": the indices are
\* left as the while loop left them.
ScanLineNoReset(s, idx, extra, colonSide) ==
    LET first == FirstAfter(s, idx)
        last  == LastAfter(s, idx)
    IN  IF Closes(s, idx)
        THEN [s EXCEPT !.cssLines = FormatLoop(s.cssLines, first, last,
                                        FurthestColon(s.cssLines, first, last, extra),
                                        colonSide),
                       !.firstProperty = last + 1,
                       !.lastProperty = last]
        ELSE [s EXCEPT !.firstProperty = first, !.lastProperty = last]

\* The group logic for a line that no early return took.
ScanLine(s, idx, extra, colonSide) ==
    LET first == FirstAfter(s, idx)
        last  == LastAfter(s, idx)
    IN  IF Closes(s, idx)
        THEN [s EXCEPT !.cssLines = FormatLoop(s.cssLines, first, last,
                                        FurthestColon(s.cssLines, first, last, extra),
                                        colonSide),
                       !.firstProperty = -1,
                       !.lastProperty = -1]
        ELSE [s EXCEPT !.firstProperty = first, !.lastProperty = last]

\* The callback on line number idx when its branch is br.
Handle(s, idx, br, extra, colonSide) ==
    IF br = "ignored" THEN [s EXCEPT !.ignoreNextLine = FALSE]
    ELSE IF br = "marker" THEN [s EXCEPT !.ignoreNextLine = TRUE]
    ELSE IF br = "comment" THEN s
    ELSE IF br = "blockend" THEN [s EXCEPT !.commentBlockEntered = FALSE]
    ELSE IF br = "block" THEN [s EXCEPT !.commentBlockEntered = TRUE]
    ELSE ScanLine(s, idx, extra, colonSide)

\* One invocation of the forEach callback, on line number idx.
Callback(s, idx, extra, colonSide) ==
    Handle(s, idx, Branch(s, idx), extra, colonSide)

\* cssLines.forEach from line number idx on.  forEach visits the indices
\* of the array as it was when the loop began; the callback never changes
\* the length.
RECURSIVE ForEach(_, _, _, _)
ForEach(s, idx, extra, colonSide) ==
    IF idx >= Len(s.cssLines) THEN s
    ELSE ForEach(Callback(s, idx, extra, colonSide), idx + 1, extra, colonSide)

\* verticalAlign as a function of its arguments.
VerticalAlign(text, extra, colonSide) ==
    Join(ForEach(InitLocals(Split(text)), 0, extra, colonSide).cssLines)

----------------------------------------------------------------------------
(* The inputs: documents of up to MaxLines lines drawn from a palette that *)
(* holds each kind of line the scanner tells apart.                        *)

PropShort   == <<"a", ":", "b">>                          \* a:b
PropLong    == <<" ", "a", "a", ":", "b", ":", "c">>      \*  aa:b:c
Opener      == <<"a", ":", "{">>                          \* a:{
IgnoreLine  == <<" ">> \o IgnoreToken                     \*  // formate-ignore
CommentLine == <<"/", "/", " ", "a", "a", ":", "b">>      \* // aa:b
BlockStart  == <<"/", "*">>                               \* /*
BlockEnd    == <<":", "*", "/">>                          \* :*/

Palette ==
    {PropShort, PropLong, Opener, IgnoreLine, CommentLine, BlockStart, BlockEnd}

Documents == UNION {[1..k -> Palette] : k \in 1..MaxLines}

----------------------------------------------------------------------------
(* One call of verticalAlign as a state machine: the split, a step per     *)
(* invocation of the forEach callback, the join.                           *)

VARIABLES
    css,                  \* the argument css
    additionalSpaces,     \* the argument additionalSpaces
    alignColon,           \* the argument alignColon
    pc,                   \* "start", "loop", "done"; "unit", "returned"
    lineNumberIndex,      \* the line number the callback is invoked on next
    cssLines, firstProperty, lastProperty, commentBlockEntered, ignoreNextLine,
    result,               \* the returned string
    kinds,                \* history: how the callback handled each line
    groups,               \* history: the groups formatted, [first, last, column]
    call                  \* the helper called on its own, with what it returned

vars ==
    <<css, additionalSpaces, alignColon, pc, lineNumberIndex, cssLines,
      firstProperty, lastProperty, commentBlockEntered, ignoreNextLine,
      result, kinds, groups, call>>

NoCall == [fn |-> "none"]

Locals ==
    [cssLines |-> cssLines, firstProperty |-> firstProperty,
     lastProperty |-> lastProperty, commentBlockEntered |-> commentBlockEntered,
     ignoreNextLine |-> ignoreNextLine]

Init ==
    /\ css \in {Join(d) : d \in Documents}
    /\ additionalSpaces \in {0, MaxExtra}
    /\ alignColon \in BOOLEAN
    /\ pc = "start"
    /\ lineNumberIndex = 0
    /\ cssLines = <<>>
    /\ firstProperty = -1
    /\ lastProperty = -1
    /\ commentBlockEntered = FALSE
    /\ ignoreNextLine = FALSE
    /\ result = <<>>
    /\ kinds = <<>>
    /\ groups = <<>>
    /\ call = NoCall

\* const cssLines = css.split('\n')
SplitLines ==
    /\ pc = "start"
    /\ cssLines' = Split(css)
    /\ pc' = "loop"
    /\ UNCHANGED <<css, additionalSpaces, alignColon, lineNumberIndex,
                   firstProperty, lastProperty, commentBlockEntered,
                   ignoreNextLine, result, kinds, groups, call>>

\* How the history names a line handled by branch br.
KindOf(br, line) ==
    IF br # "scan" THEN br
    ELSE IF IsProperty(Trim(line)) THEN "property"
    ELSE "other"

\* The group a line that reaches the group logic has formatted.
GroupNow ==
    [first  |-> FirstAfter(Locals, lineNumberIndex),
     last   |-> LastAfter(Locals, lineNumberIndex),
     column |-> FurthestColon(cssLines, FirstAfter(Locals, lineNumberIndex),
                              LastAfter(Locals, lineNumberIndex), additionalSpaces)]

\* One invocation of the forEach callback, on line number lineNumberIndex.
ForEachCallback ==
    /\ pc = "loop"
    /\ lineNumberIndex < Len(cssLines)
    /\ \E br \in {Branch(Locals, lineNumberIndex)} :
        /\ \E t \in {Handle(Locals, lineNumberIndex, br, additionalSpaces, alignColon)} :
            /\ cssLines' = t.cssLines
            /\ firstProperty' = t.firstProperty
            /\ lastProperty' = t.lastProperty
            /\ commentBlockEntered' = t.commentBlockEntered
            /\ ignoreNextLine' = t.ignoreNextLine
        /\ kinds' = Append(kinds, KindOf(br, cssLines[lineNumberIndex + 1]))
        /\ groups' = IF br = "scan" /\ Closes(Locals, lineNumberIndex)
                     THEN Append(groups, GroupNow)
                     ELSE groups
    /\ lineNumberIndex' = lineNumberIndex + 1
    /\ UNCHANGED <<css, additionalSpaces, alignColon, pc, result, call>>

\* return cssLines.join('\n')
Return ==
    /\ pc = "loop"
    /\ lineNumberIndex = Len(cssLines)
    /\ result' = Join(cssLines)
    /\ pc' = "done"
    /\ UNCHANGED <<css, additionalSpaces, alignColon, lineNumberIndex, cssLines,
                   firstProperty, lastProperty, commentBlockEntered,
                   ignoreNextLine, kinds, groups, call>>

Next ==
    \/ SplitLines
    \/ ForEachCallback
    \/ Return

Spec == Init /\ [][Next]_vars

----------------------------------------------------------------------------
(* The helpers called on their own, as the unit tests call them.           *)

\* Bound of the lists the helpers are called on.
MaxUnitLines == 2

UnitLists == UNION {[1..k -> Palette] : k \in 0..MaxUnitLines}

InitUnit ==
    /\ css = <<>>
    /\ additionalSpaces \in {0, MaxExtra}
    /\ alignColon \in BOOLEAN
    /\ pc = "unit"
    /\ lineNumberIndex = 0
    /\ cssLines \in UnitLists
    /\ firstProperty = -1
    /\ lastProperty = -1
    /\ commentBlockEntered = FALSE
    /\ ignoreNextLine = FALSE
    /\ result = <<>>
    /\ kinds = <<>>
    /\ groups = <<>>
    /\ call = NoCall

\* findIndexOfFurthestColon(cssLines)
CallFindIndexOfFurthestColon ==
    /\ pc = "unit"
    /\ call' = [fn |-> "findIndexOfFurthestColon",
                properties |-> cssLines,
                ret |-> FindIndexOfFurthestColon(cssLines)]
    /\ pc' = "returned"
    /\ UNCHANGED <<css, additionalSpaces, alignColon, lineNumberIndex, cssLines,
                   firstProperty, lastProperty, commentBlockEntered,
                   ignoreNextLine, result, kinds, groups>>

\* insertExtraSpaces(cssLines[k], additionalSpaces, alignColon)
CallInsertExtraSpaces ==
    /\ pc = "unit"
    /\ \E k \in 1..Len(cssLines) :
         call' = [fn |-> "insertExtraSpaces",
                  cssLine |-> cssLines[k],
                  numberOfSpaces |-> additionalSpaces,
                  colonSide |-> alignColon,
                  ret |-> InsertExtraSpaces(cssLines[k], additionalSpaces, alignColon)]
    /\ pc' = "returned"
    /\ UNCHANGED <<css, additionalSpaces, alignColon, lineNumberIndex, cssLines,
                   firstProperty, lastProperty, commentBlockEntered,
                   ignoreNextLine, result, kinds, groups>>

NextUnit == CallFindIndexOfFurthestColon \/ CallInsertExtraSpaces

SpecUnit == InitUnit /\ [][NextUnit]_vars

----------------------------------------------------------------------------
(* Vocabulary of the properties.                                           *)

Done == pc = "done"

\* The lines of the argument and of the returned string.
Input == Split(css)
Output == Split(result)

HasColon(line) == \E p \in 1..Len(line) : line[p] = ":"

\* The one-based place of the first ':' of a line that has one.
FirstColonPos(line) ==
    CHOOSE p \in 1..Len(line) :
        line[p] = ":" /\ \A q \in 1..(p - 1) : line[q] # ":"

\* The zero-based offset of the first ':' of a line that has one.
ColonOffset(line) == FirstColonPos(line) - 1

\* line with k spaces put next to its first ':' (before it or after it),
\* every other character kept; line itself when it has no ':'.
PaddedAtColon(line, k, before) ==
    IF ~HasColon(line) THEN line
    ELSE LET c == FirstColonPos(line)
             e == IF before THEN c - 1 ELSE c    \* characters kept before the pad
         IN  [p \in 1..(Len(line) + k) |->
                 IF p <= e THEN line[p]
                 ELSE IF p <= e + k THEN " "
                 ELSE line[p - k]]

SetMax(S) == CHOOSE m \in S : \A x \in S : x <= m

\* The members of the property group of property line i (one-based): the
\* property lines not separated from i by a line that is neither a
\* property, a comment, an ignore marker nor an ignored line.
Members(i) ==
    {j \in 1..Len(kinds) :
        /\ kinds[j] = "property"
        /\ \A m \in 1..Len(kinds) :
              (m > i /\ m < j) \/ (m > j /\ m < i) => kinds[m] # "other"}

\* The target column of the group of property line i.
TargetColumn(i) ==
    SetMax({ColonOffset(Input[j]) : j \in Members(i)}) + additionalSpaces

----------------------------------------------------------------------------
(* C1.  With alignColon = true every property line of every group has its  *)
(* first ':' at the group's target column: the furthest first-colon offset *)
(* of the group's property lines in the input, plus additionalSpaces.      *)

\* C1: after verticalAlign with alignColon = true, every property line of
\* every property group has its first ':' at the group's target column.
C1_AlignedToTargetColumn ==
    Done /\ alignColon =>
        \A i \in 1..Len(kinds) :
            kinds[i] = "property" =>
                IndexOf(Output[i], ":") = TargetColumn(i)

----------------------------------------------------------------------------
(* C2.  The line after an ignore marker is returned as it was, and its     *)
(* colon does not count for the column of any group.                       *)

\* The lines first .. last - 1 (zero-based) that are not ignored lines.
SliceNotIgnored(first, last) ==
    {Input[j] : j \in {m \in (first + 1)..last : kinds[m] # "ignored"}}

\* C2: a line immediately preceded by an ignore marker is left unchanged
\* and its colon offset contributes to no group's target column.
C2_IgnoredLineUntouched ==
    Done =>
        /\ \A i \in 1..Len(kinds) :
              kinds[i] = "ignored" => Output[i] = Input[i]
        /\ \A g \in 1..Len(groups) :
              groups[g].first < groups[g].last =>
                groups[g].column =
                    SetMax({IndexOf(l, ":") :
                              l \in SliceNotIgnored(groups[g].first, groups[g].last)})
                    + additionalSpaces

----------------------------------------------------------------------------
(* C3.  Idempotence.                                                       *)

\* C3 as stated: for every configuration a second run on the first run's
\* output changes nothing.
C3_IdempotentAnyConfiguration ==
    Done => VerticalAlign(result, additionalSpaces, alignColon) = result

\* C3 amended: with additionalSpaces = 0 and alignColon = true a second run
\* on the first run's output changes nothing.
C3_IdempotentColonNoExtra ==
    Done /\ alignColon /\ additionalSpaces = 0 =>
        VerticalAlign(result, 0, TRUE) = result

\* A first run with additionalSpaces = 0 and alignColon = true that
\* rewrote a line.
C3_Witness ==
    Done /\ alignColon /\ additionalSpaces = 0 /\ result # css

----------------------------------------------------------------------------
(* C4.  The frame of verticalAlign.                                        *)

\* C4: the output has as many lines as the input, and each output line is
\* the input line with k >= 0 spaces put at one place next to its first
\* ':' (before it when alignColon is true, after it when false).
C4_OnlySpacesAtFirstColon ==
    Done =>
        \A in \in {Input} : \A out \in {Output} :
            /\ Len(out) = Len(in)
            /\ \A i \in 1..Len(in) :
                  /\ Len(out[i]) >= Len(in[i])
                  /\ out[i] =
                        PaddedAtColon(in[i], Len(out[i]) - Len(in[i]), alignColon)

\* A run with alignColon = false that padded a line holding two ':'.
C4_Witness ==
    /\ Done
    /\ ~alignColon
    /\ \E i \in 1..Len(Input) :
          /\ Output[i] # Input[i]
          /\ \E p, q \in 1..Len(Input[i]) :
                p < q /\ Input[i][p] = ":" /\ Input[i][q] = ":"

----------------------------------------------------------------------------
(* C5.  Comment lines.                                                     *)

\* Line i (one-based) of the input is a comment line: its trimmed text
\* starts with '//', or it belongs to a block comment.
IsCommentText(i) ==
    \/ IsLineCommentLine(Input[i])
    \/ StartsWith(Trim(Input[i]), <<"/", "*">>)
    \/ Contains(Input[i], <<"*", "/">>)
    \/ kinds[i] \in {"block", "blockend"}

----------------------------------------------------------------------------
(* C6.  Groups are aligned independently.                                  *)

\* verticalAlign on the lines from .. to (one-based) of lines, as lines.
AlignedAlone(lines, from, to) ==
    Split(VerticalAlign(Join(SubSeq(lines, from, to)), additionalSpaces, alignColon))

\* C6: the group indices are reset when a group has been formatted, a line
\* that is neither property, comment nor ignored leaves the scanner idle,
\* and the lines before and after such a line are aligned as if each part
\* were a document of its own: no line of one part has any effect on the
\* output of the other.
C6_GroupsIndependent ==
    /\ pc = "loop" /\ lineNumberIndex < Len(cssLines) => lastProperty = -1
    /\ /\ pc = "loop"
       /\ groups # <<>>
       /\ groups[Len(groups)].last = lineNumberIndex - 1
       => firstProperty = -1 /\ lastProperty = -1
    /\ pc = "loop" /\ lineNumberIndex > 0 /\ kinds[lineNumberIndex] = "other" =>
          /\ firstProperty = -1
          /\ ~commentBlockEntered
          /\ ~ignoreNextLine
    /\ Done =>
          \A in \in {Input} : \A out \in {Output} :
              \A t \in 1..(Len(kinds) - 1) :
                  kinds[t] = "other" =>
                      out = AlignedAlone(in, 1, t) \o AlignedAlone(in, t + 1, Len(in))

\* Two groups of one document formatted to different columns.
C6_Witness ==
    /\ Done
    /\ \E g, h \in 1..Len(groups) :
          /\ groups[g].last < groups[h].first
          /\ groups[g].column # groups[h].column
          /\ kinds[groups[g].last + 1] = "other"
    /\ result # css

----------------------------------------------------------------------------
(* C7.  An unterminated block comment.                                     *)

\* C7: when a line starts with '/*' and neither it nor any later line
\* holds '*/', every line from it to the end is returned unchanged.
C7_UnterminatedCommentUntouched ==
    Done =>
        \A i \in 1..Len(Input) :
            /\ StartsWith(Trim(Input[i]), <<"/", "*">>)
            /\ \A j \in i..Len(Input) : ~Contains(Input[j], <<"*", "/">>)
            => \A j \in i..Len(Input) : Output[j] = Input[j]

\* The part of C7 that holds: a block-comment start that the scanner
\* reaches (it is not the line after an ignore marker) and that no '*/'
\* follows leaves every line from it to the end unchanged.
C7_ReachedStartUntouched ==
    Done =>
        \A in \in {Input} : \A out \in {Output} :
            \A i \in 1..Len(in) :
                /\ kinds[i] = "block"
                /\ StartsWith(Trim(in[i]), <<"/", "*">>)
                /\ \A j \in i..Len(in) : ~Contains(in[j], <<"*", "/">>)
                => \A j \in i..Len(in) : out[j] = in[j]

----------------------------------------------------------------------------
(* C8.  findIndexOfFurthestColon.                                          *)

\* C8: findIndexOfFurthestColon returns 0 for an empty list and otherwise
\* the furthest first-colon offset of the lines that hold a ':', lines
\* without ':' counting as absent; the result is never negative.
C8_FurthestColonNonNegative ==
    call.fn = "findIndexOfFurthestColon" =>
        /\ call.properties = <<>> => call.ret = 0
        /\ call.ret >= 0
        /\ (\E k \in 1..Len(call.properties) : HasColon(call.properties[k])) =>
              call.ret =
                  SetMax({ColonOffset(call.properties[k]) :
                            k \in {m \in 1..Len(call.properties) :
                                     HasColon(call.properties[m])}})

----------------------------------------------------------------------------
(* C9.  insertExtraSpaces.                                                 *)

\* C9: insertExtraSpaces puts n spaces next to the first ':' only (before
\* it when alignColon is true, after it when false); the line is returned
\* as it was for n = 0 and when it has no ':', and is n longer otherwise.
C9_InsertExtraSpaces ==
    call.fn = "insertExtraSpaces" =>
        /\ call.ret = PaddedAtColon(call.cssLine, call.numberOfSpaces, call.colonSide)
        /\ call.numberOfSpaces = 0 => call.ret = call.cssLine
        /\ ~HasColon(call.cssLine) => call.ret = call.cssLine
        /\ HasColon(call.cssLine) =>
              Len(call.ret) = Len(call.cssLine) + call.numberOfSpaces

\* A call that pads after the first of two ':'.
C9_Witness ==
    /\ call.fn = "insertExtraSpaces"
    /\ call.numberOfSpaces > 0
    /\ ~call.colonSide
    /\ call.ret # call.cssLine
    /\ \E p, q \in 1..Len(call.cssLine) :
          p < q /\ call.cssLine[p] = ":" /\ call.cssLine[q] = ":"

----------------------------------------------------------------------------
(* C10.  The line that terminates a group.                                 *)

\* C10: a non-property line that terminates a group is returned unchanged.
C10_TerminatorUntouched ==
    Done =>
        \A g \in 1..Len(groups) :
            kinds[groups[g].last + 1] = "other" =>
                Output[groups[g].last + 1] = Input[groups[g].last + 1]

----------------------------------------------------------------------------
(* C11.  A group closed by the end of the document.                        *)

\* C11: when the last line of the text is a property line, it is a full
\* member of the group it closes: its colon offset is counted in the
\* group's column and, with alignColon = true, its ':' ends at that
\* column; a document of property lines only forms one group of all lines.
C11_LastLineFullMember ==
    Done =>
        \A in \in {Input} : \A out \in {Output} :
            /\ \A g \in 1..Len(groups) :
                  groups[g].last = Len(in) - 1 /\ kinds[Len(in)] = "property" =>
                      /\ groups[g].column >=
                            IndexOf(in[Len(in)], ":") + additionalSpaces
                      /\ alignColon =>
                            IndexOf(out[Len(in)], ":") = groups[g].column
            /\ (\A i \in 1..Len(in) : kinds[i] = "property") =>
                  /\ Len(groups) = 1
                  /\ groups[1].first = 0
                  /\ groups[1].last = Len(in) - 1

\* The part of C11 that holds: a document of property lines only is
\* formatted as one group that spans all its lines.
C11_AllPropertiesOneGroup ==
    Done /\ (\A i \in 1..Len(kinds) : kinds[i] = "property") =>
        /\ Len(groups) = 1
        /\ groups[1].first = 0
        /\ groups[1].last = Len(kinds) - 1

----------------------------------------------------------------------------
(* C12.  Comment lines inside a group and the column.                      *)

\* The kinds of the comment lines: '//' lines and block-comment lines.
CommentKinds == {"comment", "block", "blockend"}

\* The first-colon offsets of the lines first .. last - 1 (zero-based)
\* that are not comment lines.
OffsetsWithoutComments(first, last) ==
    {IndexOf(Input[j], ":") :
        j \in {m \in (first + 1)..last : kinds[m] \notin CommentKinds}}

\* C12: the colon offset of a comment line lying between the property
\* lines of a group never changes the group's column: the column is the
\* one computed with the comment lines left out.
C12_CommentsNotInColumn ==
    Done =>
        \A g \in 1..Len(groups) :
            \A offs \in {OffsetsWithoutComments(groups[g].first, groups[g].last)} :
                groups[g].column =
                    (IF offs = {} THEN 0 ELSE SetMax(offs)) + additionalSpaces

----------------------------------------------------------------------------
(* C13.  Comment lines and ignore markers do not split a group.            *)

\* The kinds of the lines that do not end a group.
NonSplittingKinds == {"comment", "block", "blockend", "marker", "ignored"}

\* C13: property lines separated only by comment lines, ignore markers and
\* ignored lines form one group: with alignColon = true their first ':'
\* ends at one common offset.
C13_OneGroupOneColumn ==
    Done /\ alignColon =>
        \A out \in {Output} :
            \A i, j \in 1..Len(kinds) :
                /\ kinds[i] = "property"
                /\ kinds[j] = "property"
                /\ i + 1 < j
                /\ \A m \in (i + 1)..(j - 1) : kinds[m] \in NonSplittingKinds
                => IndexOf(out[i], ":") = IndexOf(out[j], ":")

\* The part of C13 that holds: a group closed by a line that is not a
\* property has, with alignColon = true, the ':' of every one of its
\* property lines at the group's column, whatever comment, marker or
\* ignored lines lie between them.
C13_TerminatedGroupOneColumn ==
    Done /\ alignColon =>
        \A out \in {Output} :
            \A g \in 1..Len(groups) :
                kinds[groups[g].last + 1] = "other" =>
                    \A i \in (groups[g].first + 1)..groups[g].last :
                        kinds[i] = "property" =>
                            IndexOf(out[i], ":") = groups[g].column

====
